---------------------------- MODULE Spec2Model ----------------------------
(***************************************************************************)
(* Visual Product Matcher: the HTTP API server (backend/src/index.js,      *)
(* ProductDatabase.js, ImageProcessor.js, errorHandler.js), the browser    *)
(* application shell (App.jsx) with its upload component, and the results  *)
(* component's filter (SearchResults.jsx), and the embedding-generation    *)
(* script (scripts/generateEmbeddings.js).                                 *)
(*                                                                         *)
(* Embeddings are tuples of integers.  A cosine similarity is kept exactly *)
(* as the pair num / sqrt(den2); comparisons and Math.round are computed   *)
(* on that exact value (the code computes them in IEEE doubles).           *)
(***************************************************************************)
EXTENDS Integers, Sequences, FiniteSets, TLC

VARIABLES
    \* ---- server: index.js, ProductDatabase, ImageProcessor
    dbInitialized,   \* index.js: let dbInitialized
    loaded,          \* ProductDatabase.loaded
    products,        \* ProductDatabase.products (sequence of product ids)
    embeddings,      \* ProductDatabase.embeddings (function id -> vector)
    modelLoaded,     \* ImageProcessor.modelLoaded
    catalog,         \* contents of data/products.json and data/embeddings.json
    reqs,            \* the requests being served, one record per slot
    \* ---- errorHandler called directly (middleware/errorHandler.js)
    ehErr,           \* the error last passed to errorHandler
    ehRes,           \* the response errorHandler sent for it
    \* ---- browser: App.jsx
    uploadedImage,   \* useState(null), "" for null
    searchResults,   \* useState([])
    isLoading,       \* useState(false)
    error,           \* useState(null): the error descriptor shown in the banner
    retryCount,      \* useState(0)
    chains,          \* the submissions made: each one's handleImageSubmit closure,
                     \* its request in flight or its retry timer
    \* ---- browser: UploadInterface.jsx
    inputType,       \* useState('file')
    imageUrl,        \* useState('')
    previewUrl,      \* useState(null), "" for null
    selectedFile,    \* useState(null)
    uiError,         \* useState(null), "" for null: the component's own error
    reads,           \* files whose FileReader.readAsDataURL has not ended
    \* ---- browser: SearchResults.jsx
    srProducts,      \* props.products
    filteredProducts, \* useState(products)
    threshold,       \* useState(0)
    pendingEffects,  \* the effects of the last render that have not run yet
    \* ---- browser: services/api.js
    apiFailure,      \* the failure last given to the response interceptor
    apiRejected,     \* what the interceptor attached to the error it rejected with
    \* ---- ImageProcessor.processImage / processImageFromUrl called on their own
    procCall,        \* the last call: its arguments and what its stages met
    procResult,      \* what the call returned, or that it threw
    \* ---- ImageProcessor.validateImage called on its own
    valBuffer,       \* the buffer last given to validateImage
    valResult,       \* what validateImage returned for it
    \* ---- index.js: the CORS origin callback
    nodeEnv,         \* process.env.NODE_ENV, "" when unset
    frontendUrl,     \* process.env.FRONTEND_URL split at its commas, <<>> when unset
    corsOrigin,      \* the Origin header last checked, "" when the request had none
    corsAllowed,     \* whether the callback allowed it
    \* ---- scripts/generateEmbeddings.js
    genPc,           \* where the script is: loadModel, readCatalog, loop, exited
    genProducts,     \* const { products }: the ids of the catalog read
    genIndex,        \* let i of the loop, counted from 1
    genEmbeddings,   \* const embeddings = {} (function id -> vector)
    successCount,    \* let successCount
    failCount,       \* let failCount
    genLog,          \* the lines logged per product: its id and how it went
    genWritten,      \* the contents given to writeFile, one per successful call
    exitCode,        \* the code given to process.exit, -1 while the script runs
    genFatal,        \* the step whose rejection reached .catch, "" if none
    \* ---- ImageProcessor.computeSimilarity called on its own
    simArgs,         \* the two arguments of the last call
    simResult        \* what the call returned, or that it threw

serverVars == <<dbInitialized, loaded, products, embeddings, modelLoaded, catalog, reqs>>
ehVars == <<ehErr, ehRes>>
appVars == <<uploadedImage, searchResults, isLoading, error, retryCount, chains>>
uiVars == <<inputType, imageUrl, previewUrl, selectedFile, uiError, reads>>
shellVars == <<appVars, uiVars>>
filterVars == <<srProducts, filteredProducts, threshold, pendingEffects>>
apiVars == <<apiFailure, apiRejected>>
procVars == <<procCall, procResult>>
valVars == <<valBuffer, valResult>>
corsVars == <<nodeEnv, frontendUrl, corsOrigin, corsAllowed>>
genVars == <<genPc, genProducts, genIndex, genEmbeddings, successCount, failCount,
             genLog, genWritten, exitCode, genFatal>>
simVars == <<simArgs, simResult>>
nonServerVars == <<ehVars, shellVars, filterVars, apiVars, procVars, valVars, corsVars, genVars, simVars>>
nonShellVars == <<serverVars, ehVars, filterVars, apiVars, procVars, valVars, corsVars, genVars, simVars>>
nonEhVars == <<serverVars, shellVars, filterVars, apiVars, procVars, valVars, corsVars, genVars, simVars>>
nonFilterVars == <<serverVars, ehVars, shellVars, apiVars, procVars, valVars, corsVars, genVars, simVars>>
nonApiVars == <<serverVars, ehVars, shellVars, filterVars, procVars, valVars, corsVars, genVars, simVars>>
nonValVars == <<serverVars, ehVars, shellVars, filterVars, apiVars, procVars, corsVars, genVars, simVars>>
nonCorsVars == <<serverVars, ehVars, shellVars, filterVars, apiVars, procVars, valVars, genVars, simVars>>
nonGenVars == <<serverVars, ehVars, shellVars, filterVars, apiVars, procVars, valVars, corsVars, simVars>>
nonSimVars == <<serverVars, ehVars, shellVars, filterVars, apiVars, procVars, valVars, corsVars, genVars>>
vars == <<serverVars, ehVars, shellVars, filterVars, apiVars, procVars, valVars, corsVars, genVars, simVars>>

-----------------------------------------------------------------------------
(* Bounds of the model *)

\* requests served concurrently
NReq == 2
\* size of the largest catalog drawn
MaxProducts == 24
\* number of embedding patterns a catalog file is drawn from
NPatterns == 3

\* size of the largest catalog the embedding script is run over
MaxGenProducts == 3

\* submissions the user makes in one run of the shell
MaxSubmissions == 2
\* length of the longest product list given to the results component
MaxResults == 3
\* searchByImage calls followed for one submission
MaxAttempts == 4

\* index.js: productDatabase.searchSimilar(embedding, 20)
TopK == 20
\* largest topK searchSimilar is called with apart from the handler's
MaxTopK == 4

-----------------------------------------------------------------------------
(* errorHandler.js *)

ErrorCodes ==
    {"INVALID_IMAGE", "PROCESSING_ERROR", "SERVICE_UNAVAILABLE",
     "RATE_LIMIT_EXCEEDED", "DATABASE_ERROR", "VALIDATION_ERROR"}

\* errorMapping[code].statusCode
errorMapping(code) ==
    CASE code = "INVALID_IMAGE" -> 400
      [] code = "PROCESSING_ERROR" -> 500
      [] code = "SERVICE_UNAVAILABLE" -> 503
      [] code = "RATE_LIMIT_EXCEEDED" -> 429
      [] code = "DATABASE_ERROR" -> 500
      [] code = "VALIDATION_ERROR" -> 400

\* new APIError(code, message, statusCode)
APIError(code, message, statusCode) ==
    [name |-> "APIError", code |-> code, message |-> message, statusCode |-> statusCode]

\* new Error(message): a generic error
GenericError(message) ==
    [name |-> "Error", code |-> "", message |-> message, statusCode |-> 0]

\* getActionableGuidance(errorCode): the guidance text is kept as a tag
getActionableGuidance(errorCode) ==
    IF errorCode \in ErrorCodes THEN "guidance:" \o errorCode ELSE "Please try again later"

\* a variant that answers with the statusCode the error was built with
StatusAsBuilt(err) == err.statusCode

\* the statusCode errorHandler settles on for an APIError
APIErrorStatus(err) ==
    IF err.code \in ErrorCodes THEN errorMapping(err.code) ELSE err.statusCode

\* errorHandler(err, req, res, next): the response it sends
errorHandler(err) ==
    IF err.name = "APIError" THEN
        [status |-> APIErrorStatus(err),
         success |-> FALSE,
         code |-> err.code,
         error |-> IF err.code \in ErrorCodes
                   THEN (IF err.message # "" THEN err.message ELSE "userMessage:" \o err.code)
                   ELSE err.message,
         actionable |-> IF err.code \in ErrorCodes
                        THEN getActionableGuidance(err.code)
                        ELSE "Please try again later"]
    ELSE IF err.name = "MulterError" THEN
        [status |-> 400,
         success |-> FALSE,
         code |-> "INVALID_IMAGE",
         error |-> IF err.code = "LIMIT_FILE_SIZE"
                   THEN "File size exceeds the maximum limit of 10MB"
                   ELSE "File upload error: " \o err.message,
         actionable |-> IF err.code = "LIMIT_FILE_SIZE"
                        THEN "Please upload a smaller image"
                        ELSE "Please check your file and try again"]
    ELSE IF err.name = "ValidationError" THEN
        [status |-> 400,
         success |-> FALSE,
         code |-> "VALIDATION_ERROR",
         error |-> err.message,
         actionable |-> "Please check your input and try again"]
    ELSE
        [status |-> 500,
         success |-> FALSE,
         code |-> "SERVICE_UNAVAILABLE",
         error |-> IF err.message # "" THEN err.message ELSE "An unexpected error occurred",
         actionable |-> "Please try again later or contact support if the problem persists"]

-----------------------------------------------------------------------------
(* ProductDatabase.js: cosineSimilarity and searchSimilar *)

\* x |-> sign(x) * x^2, strictly increasing: compares values that hold square roots
SSq(x) == IF x >= 0 THEN x * x ELSE -(x * x)

RECURSIVE DotFrom(_, _, _)
DotFrom(a, b, i) == IF i > Len(a) THEN 0 ELSE a[i] * b[i] + DotFrom(a, b, i + 1)

\* the loop of cosineSimilarity: dotProduct, norm1^2, norm2^2
Dot(a, b) == DotFrom(a, b, 1)

\* cosineSimilarity(embedding1, embedding2) for equal lengths: the value num / sqrt(den2)
cosineSimilarity(embedding1, embedding2) ==
    LET dotProduct == Dot(embedding1, embedding2)
        norm1 == Dot(embedding1, embedding1)
        norm2 == Dot(embedding2, embedding2)
    IN  IF norm1 = 0 \/ norm2 = 0
        THEN [num |-> 0, den2 |-> 1]
        ELSE [num |-> dotProduct, den2 |-> norm1 * norm2]

\* a.score >= b.score
ScoreGE(a, b) == SSq(a.num) * b.den2 >= SSq(b.num) * a.den2

\* a variant comparator, a.score - b.score, that sorts ascending
SortsBeforeAscending(x, y) == ~ScoreGE(x.score, y.score)

\* results.sort((a, b) => b.score - a.score): x is put before y when x.score > y.score
SortsBefore(x, y) == ~ScoreGE(y.score, x.score)

\* Array.prototype.sort is stable: x goes behind every entry that does not sort after it
RECURSIVE InsertSorted(_, _)
InsertSorted(x, s) ==
    IF s = <<>> THEN <<x>>
    ELSE IF SortsBefore(x, s[1]) THEN <<x>> \o s
    ELSE <<s[1]>> \o InsertSorted(x, Tail(s))

RECURSIVE SortResults(_)
SortResults(s) ==
    IF s = <<>> THEN <<>>
    ELSE InsertSorted(s[Len(s)], SortResults(SubSeq(s, 1, Len(s) - 1)))

\* a variant of the loop that stops at the first product without an embedding
RECURSIVE CollectUntilMissing(_, _, _, _)
CollectUntilMissing(prods, embs, queryEmbedding, i) ==
    IF i > Len(prods) \/ prods[i] \notin DOMAIN embs THEN <<>>
    ELSE <<[product |-> prods[i],
            score |-> cosineSimilarity(queryEmbedding, embs[prods[i]])]>>
         \o CollectUntilMissing(prods, embs, queryEmbedding, i + 1)

\* this.embeddings.get(product.id) is truthy
HasEmbedding(embs, id) == id \in DOMAIN embs

\* the for loop of searchSimilar: one {product, score} per product with an embedding
RECURSIVE Collect(_, _, _, _)
Collect(prods, embs, queryEmbedding, i) ==
    IF i > Len(prods) THEN <<>>
    ELSE IF ~HasEmbedding(embs, prods[i])
         THEN Collect(prods, embs, queryEmbedding, i + 1)
         ELSE <<[product |-> prods[i],
                 score |-> cosineSimilarity(queryEmbedding, embs[prods[i]])]>>
              \o Collect(prods, embs, queryEmbedding, i + 1)

\* a variant that cuts one entry late, slice(0, topK + 1)
SliceOneMore(s, topK) == SubSeq(s, 1, IF topK + 1 < Len(s) THEN topK + 1 ELSE Len(s))

\* results.slice(0, topK) for topK >= 0
Slice(s, topK) == SubSeq(s, 1, IF topK < Len(s) THEN topK ELSE Len(s))

\* searchSimilar throws: not loaded, no embeddings, or cosineSimilarity meets
\* an embedding of another length
searchThrows(isLoaded, prods, embs, queryEmbedding) ==
    \/ ~isLoaded
    \/ DOMAIN embs = {}
    \/ \E i \in 1..Len(prods) :
          /\ HasEmbedding(embs, prods[i])
          /\ Len(embs[prods[i]]) # Len(queryEmbedding)

\* searchSimilar(queryEmbedding, topK) when it does not throw
searchSimilar(prods, embs, queryEmbedding, topK) ==
    Slice(SortResults(Collect(prods, embs, queryEmbedding, 1)), topK)

\* Math.round(score * 100): the integer r with r - 1/2 <= 100 * score < r + 1/2
MathRound100(score) ==
    CHOOSE r \in -100..100 :
        /\ SSq(2 * r - 1) * score.den2 <= SSq(200 * score.num)
        /\ SSq(200 * score.num) < SSq(2 * r + 1) * score.den2

\* index.js: formattedResults = results.map((result, index) => ...)
formattedResults(results) ==
    [i \in 1..Len(results) |->
        [id |-> results[i].product,
         similarityScore |-> MathRound100(results[i].score),
         rank |-> i]]

-----------------------------------------------------------------------------
(* ImageProcessor.js: validateImage, validateImageUrl *)

\* config.maxFileSizeBytes = 10 * 1024 * 1024, also multer's limits.fileSize
maxFileSizeBytes == 10485760
\* validateImage: imageBuffer.length < 100
minBufferBytes == 100
minWidth == 50
minHeight == 50
maxWidth == 4096
maxHeight == 4096
allowedFormats == {"image/jpeg", "image/png", "image/webp", "image/gif"}

\* a variant of validateImage that decodes before it looks at the size
validateImageDecodesFirst(b) ==
    IF b.nullish THEN "Failed to validate image"
    ELSE IF ~b.decodable THEN "Invalid or corrupted image file"
    ELSE IF b.size > maxFileSizeBytes THEN "Image size exceeds maximum allowed size of 10MB"
    ELSE IF b.size < minBufferBytes THEN "Image file is too small or corrupted"
    ELSE IF ("image/" \o b.format) \notin allowedFormats THEN "Unsupported image format"
    ELSE IF b.width < minWidth \/ b.height < minHeight THEN "Image dimensions too small"
    ELSE IF b.width > maxWidth \/ b.height > maxHeight THEN "Image dimensions too large"
    ELSE ""

\* validateImage(imageBuffer): the error of the first check that fails, "" when valid;
\* reading the length of null or undefined throws and the outer catch answers
validateImage(b) ==
    IF b.nullish THEN "Failed to validate image"
    ELSE IF b.size > maxFileSizeBytes THEN "Image size exceeds maximum allowed size of 10MB"
    ELSE IF b.size < minBufferBytes THEN "Image file is too small or corrupted"
    ELSE IF ~b.decodable THEN "Invalid or corrupted image file"
    ELSE IF ("image/" \o b.format) \notin allowedFormats THEN "Unsupported image format"
    ELSE IF b.width < minWidth \/ b.height < minHeight THEN "Image dimensions too small"
    ELSE IF b.width > maxWidth \/ b.height > maxHeight THEN "Image dimensions too large"
    ELSE ""

\* a variant that accepts every protocol
validateImageUrlAnyProtocol(url) == url.parses

\* validateImageUrl(url): new URL(url) parses and the protocol is http: or https:
validateImageUrl(url) == url.parses /\ url.protocol \in {"http:", "https:"}

-----------------------------------------------------------------------------
(* Inputs the server is driven with *)

Buffer(size, decodable, format, width, height) ==
    [nullish |-> FALSE, size |-> size, decodable |-> decodable, format |-> format,
     width |-> width, height |-> height]

NoBuffer == Buffer(0, FALSE, "", 0, 0)
ValidBuffer == Buffer(2048, TRUE, "jpeg", 100, 100)
CorruptBuffer == Buffer(2048, FALSE, "", 0, 0)
TinyBuffer == Buffer(50, FALSE, "", 0, 0)
OversizeBuffer == Buffer(maxFileSizeBytes + 1, TRUE, "png", 100, 100)
\* null or undefined given where a buffer is expected
NullBuffer == [Buffer(0, FALSE, "", 0, 0) EXCEPT !.nullish = TRUE]

\* files a client uploads and bodies a URL fetch brings back
FileBuffers == {ValidBuffer, CorruptBuffer, OversizeBuffer}
FetchedBuffers == {ValidBuffer, TinyBuffer}

NoUrl == [given |-> FALSE, parses |-> FALSE, protocol |-> ""]
UrlInputs ==
    {NoUrl,
     [given |-> TRUE, parses |-> FALSE, protocol |-> ""],
     [given |-> TRUE, parses |-> TRUE, protocol |-> "ftp:"],
     [given |-> TRUE, parses |-> TRUE, protocol |-> "https:"]}

\* a request as it is sent: the route, the multipart file and the imageUrl field
SearchInputs ==
    {[route |-> "search", hasFile |-> f # NoBuffer, file |-> f, url |-> u] :
        f \in FileBuffers \cup {NoBuffer}, u \in UrlInputs}
ProductsInput == [route |-> "products", hasFile |-> FALSE, file |-> NoBuffer, url |-> NoUrl]
AllInputs == SearchInputs \cup {ProductsInput}

\* the requests the concurrent runs are driven with: a search by URL, which goes
\* through every stage of the handler, and the catalog listing
FewInputs ==
    {in \in AllInputs :
        \/ in = ProductsInput
        \/ in.file = NoBuffer /\ in.url.protocol = "https:"}

\* the embeddings extractFeatures is taken to return for an image
Queries == {<<1, 0>>, <<1, 1>>, <<0, 0>>, <<-1, 2>>}
FewQueries == {<<1, 0>>}

\* vectors the embeddings file is filled from
VecList == << <<1, 0>>, <<0, 1>>, <<1, 1>>, <<2, 1>>, <<-1, 0>>, <<0, 0>>, <<1, -1>> >>

PatternEmbedding(p, i) == VecList[((i * p + p) % Len(VecList)) + 1]

\* products.json with n products and embeddings.json following pattern p; product i
\* has no entry when miss > 0 divides i; with odd, the last entry has another length
CatalogFile(n, p, miss, odd) ==
    LET ids == {i \in 1..n : miss = 0 \/ i % miss # 0}
    IN  [products |-> [i \in 1..n |-> i],
         embeddings |-> [i \in ids |->
                           IF odd /\ i = n THEN <<1, 0, 0>> ELSE PatternEmbedding(p, i)]]

RichCatalogs ==
    {CatalogFile(n, p, miss, odd) :
        n \in {0, 1, 3, TopK, MaxProducts}, p \in 1..NPatterns,
        miss \in {0, 1, 2, 3}, odd \in BOOLEAN}

SmallCatalogs == {CatalogFile(3, 1, 2, FALSE), CatalogFile(1, 1, 1, FALSE)}

-----------------------------------------------------------------------------
(* index.js: initializeDatabase, POST /api/search, GET /api/products *)

IdleReq ==
    [pc |-> "idle", route |-> "", hasFile |-> FALSE, file |-> NoBuffer, url |-> NoUrl,
     arrivedInit |-> FALSE,      \* history: dbInitialized when the request arrived
     stages |-> <<>>,            \* history: the stages the request has entered, in order
     failed |-> "",              \* history: the stage that threw
     imageBuffer |-> NoBuffer, uploadedImageUrl |-> "",
     embedding |-> <<>>,         \* the handler's embedding, once extracted
     res |-> [status |-> 0, success |-> FALSE]]

\* a throw reaches errorHandler through asyncHandler: the response is sent
Throw(req, stage, err) ==
    [req EXCEPT !.pc = "done", !.failed = stage, !.res = errorHandler(err)]

Enter(req, stage) == [req EXCEPT !.stages = Append(@, stage)]

\* a variant of the handler that looks at req.body.imageUrl before req.file
HandlerBodyUrlFirst(req, isLoaded, prods) ==
    IF req.route = "products" THEN
        IF ~isLoaded
        THEN Throw(Enter(req, "getAllProducts"), "getAllProducts",
                   GenericError("Products not loaded. Call loadProducts() first."))
        ELSE [Enter(req, "getAllProducts") EXCEPT
                 !.pc = "done",
                 !.res = [status |-> 200, success |-> TRUE,
                          products |-> prods, count |-> Len(prods)]]
    ELSE IF req.url.given THEN
        IF ~validateImageUrl(req.url)
        THEN Throw(Enter(Enter(req, "input"), "validateImageUrl"), "validateImageUrl",
                   APIError("INVALID_IMAGE", "Invalid image URL format", 400))
        ELSE [Enter(Enter(Enter(req, "input"), "validateImageUrl"), "loadImageFromUrl")
                 EXCEPT !.pc = "loadImageFromUrl"]
    ELSE IF req.hasFile THEN
        [Enter(Enter(req, "input"), "validateImage") EXCEPT
            !.pc = "validateImage", !.imageBuffer = req.file,
            !.uploadedImageUrl = "uploaded-file"]
    ELSE Throw(Enter(req, "input"), "input",
               APIError("VALIDATION_ERROR",
                        "No image provided. Please upload an image file or provide an imageUrl",
                        400))

\* the handler from the end of initialization to its next await
HandlerBody(req, isLoaded, prods) ==
    IF req.route = "products" THEN
        IF ~isLoaded
        THEN Throw(Enter(req, "getAllProducts"), "getAllProducts",
                   GenericError("Products not loaded. Call loadProducts() first."))
        ELSE [Enter(req, "getAllProducts") EXCEPT
                 !.pc = "done",
                 !.res = [status |-> 200, success |-> TRUE,
                          products |-> prods, count |-> Len(prods)]]
    ELSE IF req.hasFile THEN
        [Enter(Enter(req, "input"), "validateImage") EXCEPT
            !.pc = "validateImage", !.imageBuffer = req.file,
            !.uploadedImageUrl = "uploaded-file"]
    ELSE IF req.url.given THEN
        IF ~validateImageUrl(req.url)
        THEN Throw(Enter(Enter(req, "input"), "validateImageUrl"), "validateImageUrl",
                   APIError("INVALID_IMAGE", "Invalid image URL format", 400))
        ELSE [Enter(Enter(Enter(req, "input"), "validateImageUrl"), "loadImageFromUrl")
                 EXCEPT !.pc = "loadImageFromUrl"]
    ELSE Throw(Enter(req, "input"), "input",
               APIError("VALIDATION_ERROR",
                        "No image provided. Please upload an image file or provide an imageUrl",
                        400))

\* a request is sent; upload.single('image') rejects a file above limits.fileSize
Arrive(r, inputs) ==
    /\ reqs[r].pc = "idle"
    /\ \E in \in inputs :
         LET req == [IdleReq EXCEPT !.route = in.route, !.hasFile = in.hasFile,
                                    !.file = in.file, !.url = in.url,
                                    !.arrivedInit = dbInitialized]
         IN  reqs' = [reqs EXCEPT ![r] =
                        IF in.hasFile /\ in.file.size > maxFileSizeBytes
                        THEN Throw(req, "multer",
                                   [name |-> "MulterError", code |-> "LIMIT_FILE_SIZE",
                                    message |-> "File too large", statusCode |-> 0])
                        ELSE [req EXCEPT !.pc = "handler"]]
    /\ UNCHANGED <<dbInitialized, loaded, products, embeddings, modelLoaded, catalog, nonServerVars>>

\* a variant of the handler's start that initializes on every request
StartAlwaysInitializes(r) ==
    /\ reqs[r].pc = "handler"
    /\ reqs' = [reqs EXCEPT ![r] = [Enter(reqs[r], "loadProducts") EXCEPT !.pc = "loadProducts"]]
    /\ UNCHANGED <<dbInitialized, loaded, products, embeddings, modelLoaded, catalog, nonServerVars>>

\* the route handler starts: if (!dbInitialized) await initializeDatabase()
Start(r) ==
    /\ reqs[r].pc = "handler"
    /\ reqs' = [reqs EXCEPT ![r] =
                  IF dbInitialized
                  THEN HandlerBody(reqs[r], loaded, products)
                  ELSE [Enter(reqs[r], "loadProducts") EXCEPT !.pc = "loadProducts"]]
    /\ UNCHANGED <<dbInitialized, loaded, products, embeddings, modelLoaded, catalog, nonServerVars>>

\* loadProducts: readFile and JSON.parse end, well or not
LoadProducts(r) ==
    /\ reqs[r].pc = "loadProducts"
    /\ \/ /\ products' = catalog.products
          /\ loaded' = TRUE
          /\ reqs' = [reqs EXCEPT ![r] =
                        [Enter(@, "loadEmbeddings") EXCEPT !.pc = "loadEmbeddings"]]
       \/ /\ reqs' = [reqs EXCEPT ![r] =
                        Throw(@, "loadProducts", GenericError("Failed to load product database"))]
          /\ UNCHANGED <<products, loaded>>
    /\ UNCHANGED <<dbInitialized, embeddings, modelLoaded, catalog, nonServerVars>>

\* initializeDatabase after a load step that ended well and found the model loaded,
\* or after the model load: dbInitialized = true, then the handler goes on
InitializedReq(req, isLoaded, prods) == HandlerBody(req, isLoaded, prods)

\* loadEmbeddings: readFile and JSON.parse end; then loadModel is called
LoadEmbeddings(r) ==
    /\ reqs[r].pc = "loadEmbeddings"
    /\ \/ /\ embeddings' = catalog.embeddings
          /\ IF modelLoaded
             THEN /\ dbInitialized' = TRUE
                  /\ reqs' = [reqs EXCEPT ![r] =
                                InitializedReq(Enter(@, "loadModel"), loaded, products)]
             ELSE /\ reqs' = [reqs EXCEPT ![r] =
                                [Enter(@, "loadModel") EXCEPT !.pc = "loadModel"]]
                  /\ UNCHANGED dbInitialized
       \/ /\ reqs' = [reqs EXCEPT ![r] =
                        Throw(@, "loadEmbeddings",
                              GenericError("Failed to load embeddings database"))]
          /\ UNCHANGED <<embeddings, dbInitialized>>
    /\ UNCHANGED <<loaded, products, modelLoaded, catalog, nonServerVars>>

\* loadModel: mobilenet.load ends, well or not
LoadModel(r) ==
    /\ reqs[r].pc = "loadModel"
    /\ \/ /\ modelLoaded' = TRUE
          /\ dbInitialized' = TRUE
          /\ reqs' = [reqs EXCEPT ![r] = InitializedReq(@, loaded, products)]
       \/ /\ reqs' = [reqs EXCEPT ![r] =
                        Throw(@, "loadModel",
                              GenericError("Failed to initialize image processing model"))]
          /\ UNCHANGED <<modelLoaded, dbInitialized>>
    /\ UNCHANGED <<loaded, products, embeddings, catalog, nonServerVars>>

\* loadImageFromUrl ends: a body, or an error the handler wraps as INVALID_IMAGE
LoadImageFromUrl(r) ==
    /\ reqs[r].pc = "loadImageFromUrl"
    /\ \/ \E b \in FetchedBuffers :
            reqs' = [reqs EXCEPT ![r] =
                       [Enter(@, "validateImage") EXCEPT
                           !.pc = "validateImage", !.imageBuffer = b,
                           !.uploadedImageUrl = "imageUrl"]]
       \/ \E msg \in {"Failed to load image from URL: Failed to fetch image: HTTP 404",
                      "Failed to load image from URL: URL does not point to an image"} :
            reqs' = [reqs EXCEPT ![r] =
                       Throw(@, "loadImageFromUrl", APIError("INVALID_IMAGE", msg, 400))]
    /\ UNCHANGED <<dbInitialized, loaded, products, embeddings, modelLoaded, catalog, nonServerVars>>

\* validateImage ends; extractFeatures is called for a valid image
ValidateImage(r) ==
    /\ reqs[r].pc = "validateImage"
    /\ LET validationError == validateImage(reqs[r].imageBuffer)
       IN  reqs' = [reqs EXCEPT ![r] =
                      IF validationError # ""
                      THEN Throw(@, "validateImage",
                                 APIError("INVALID_IMAGE", validationError, 400))
                      ELSE [Enter(@, "extractFeatures") EXCEPT !.pc = "extractFeatures"]]
    /\ UNCHANGED <<dbInitialized, loaded, products, embeddings, modelLoaded, catalog, nonServerVars>>

\* the response of a search that went through
SearchResponse(req, results) ==
    [status |-> 200, success |-> TRUE, uploadedImageUrl |-> req.uploadedImageUrl,
     results |-> formattedResults(results), count |-> Len(formattedResults(results))]

\* extractFeatures ends; on an embedding the handler searches, formats and responds
ExtractFeatures(r, queries) ==
    /\ reqs[r].pc = "extractFeatures"
    /\ \/ \E q \in queries :
            LET req == [Enter(reqs[r], "searchSimilar") EXCEPT !.embedding = q]
            IN  reqs' = [reqs EXCEPT ![r] =
                           IF searchThrows(loaded, products, embeddings, q)
                           THEN Throw(req, "searchSimilar",
                                      APIError("DATABASE_ERROR",
                                               "Failed to search for similar products", 500))
                           ELSE [req EXCEPT
                                    !.pc = "done",
                                    !.res = SearchResponse(req,
                                                searchSimilar(products, embeddings, q, TopK))]]
       \/ reqs' = [reqs EXCEPT ![r] =
                     Throw(@, "extractFeatures",
                           APIError("PROCESSING_ERROR", "Failed to process image", 500))]
    /\ UNCHANGED <<dbInitialized, loaded, products, embeddings, modelLoaded, catalog, nonServerVars>>

\* the response has been sent; the slot serves the next request
Finish(r) ==
    /\ reqs[r].pc = "done"
    /\ reqs' = [reqs EXCEPT ![r] = IdleReq]
    /\ UNCHANGED <<dbInitialized, loaded, products, embeddings, modelLoaded, catalog, nonServerVars>>

\* the server after construction, with the data files it will read
ServerInit(catalogs) ==
    /\ dbInitialized = FALSE
    /\ loaded = FALSE
    /\ products = <<>>
    /\ embeddings = <<>>
    /\ modelLoaded = FALSE
    /\ catalog \in catalogs
    /\ reqs = [r \in 1..NReq |-> IdleReq]

-----------------------------------------------------------------------------
(* ImageProcessor.js: processImage and processImageFromUrl *)

\* what a function did: returned a value, or threw an error with a message
Returned(value) == [threw |-> FALSE, message |-> "", value |-> value]
Threw(message) == [threw |-> TRUE, message |-> message, value |-> <<>>]

\* how the feature extraction of one call goes: mobilenet.load rejects, the
\* conversion to a tensor fails, model.infer fails, or all is well
Extractions == {"ok", "loadFails", "tensorFails", "inferFails"}

\* how the fetch of one call goes
FetchKinds == {"ok", "httpError", "notImage", "abort", "network"}
Fetches ==
    {[kind |-> "ok", body |-> b] :
        b \in {ValidBuffer, CorruptBuffer, TinyBuffer, OversizeBuffer,
               Buffer(2048, TRUE, "tiff", 100, 100), Buffer(2048, TRUE, "png", 49, 100)}}
    \cup {[kind |-> k, body |-> NoBuffer] : k \in FetchKinds \ {"ok"}}
NoFetch == [kind |-> "none", body |-> NoBuffer]

\* loadModel(): nothing when modelLoaded, else mobilenet.load; a rejection is rethrown
loadModel(isModelLoaded, extraction) ==
    IF isModelLoaded THEN Returned(TRUE)
    ELSE IF extraction = "loadFails"
         THEN Threw("Failed to initialize image processing model")
         ELSE Returned(TRUE)

\* extractFeatures(imageBuffer): loadModel outside the try, then tensor and inference
extractFeatures(isModelLoaded, extraction) ==
    LET load == IF isModelLoaded THEN Returned(TRUE) ELSE loadModel(isModelLoaded, extraction)
    IN  IF load.threw THEN load
        ELSE IF extraction = "tensorFails"
             THEN Threw("Failed to extract image features: Failed to convert image to tensor")
        ELSE IF extraction = "inferFails"
             THEN Threw("Failed to extract image features: inference failed")
        ELSE Returned(<<1, 0>>)

\* loadImageFromUrl(imageUrl): every failure is rethrown with a message
loadImageFromUrl(fetch) ==
    CASE fetch.kind = "ok" -> Returned(fetch.body)
      [] fetch.kind = "httpError" ->
            Threw("Failed to load image from URL: Failed to fetch image: HTTP 404")
      [] fetch.kind = "notImage" ->
            Threw("Failed to load image from URL: URL does not point to an image")
      [] fetch.kind = "abort" -> Threw("Image download timeout")
      [] OTHER -> Threw("Failed to load image from URL: fetch failed")

\* the object processImage and processImageFromUrl return
Failure(err) ==
    [success |-> FALSE, hasError |-> TRUE, error |-> err,
     hasEmbedding |-> FALSE, embedding |-> <<>>, hasMetadata |-> FALSE]
Success(embedding) ==
    [success |-> TRUE, hasError |-> FALSE, error |-> "",
     hasEmbedding |-> TRUE, embedding |-> embedding, hasMetadata |-> TRUE]

\* a variant without the catch: what the body throws escapes
CatchNothing(outcome, fallback) == outcome

\* catch (error) { return {success: false, error: error.message || fallback} }
Catch(outcome, fallback) ==
    IF outcome.threw
    THEN Returned(Failure(IF outcome.message # "" THEN outcome.message ELSE fallback))
    ELSE outcome

\* processImage(imageBuffer)
processImage(imageBuffer, isModelLoaded, extraction) ==
    LET error1 == validateImage(imageBuffer)
        features == extractFeatures(isModelLoaded, extraction)
        body == IF error1 # "" THEN Returned(Failure(error1))
                ELSE IF features.threw THEN features
                ELSE Returned(Success(features.value))
    IN  Catch(body, "Failed to process image")

\* processImageFromUrl(imageUrl)
processImageFromUrl(url, fetch, isModelLoaded, extraction) ==
    LET loadedImage == loadImageFromUrl(fetch)
        body == IF ~validateImageUrl(url) THEN Returned(Failure("Invalid image URL format"))
                ELSE IF loadedImage.threw THEN loadedImage
                ELSE processImage(loadedImage.value, isModelLoaded, extraction)
    IN  Catch(body, "Failed to process image from URL")

\* modelLoaded after a call whose image reached extractFeatures
ModelLoadedAfter(reached, isModelLoaded, extraction) ==
    isModelLoaded \/ (reached /\ extraction # "loadFails")

\* the buffers processImage is called with
ProcBuffers ==
    {ValidBuffer, CorruptBuffer, TinyBuffer, OversizeBuffer, NullBuffer,
     Buffer(2048, TRUE, "tiff", 100, 100), Buffer(2048, TRUE, "png", 100, 5000)}

\* the URLs processImageFromUrl is called with
ProcUrls == UrlInputs \ {NoUrl}

NoCall ==
    [fn |-> "", buffer |-> NoBuffer, url |-> NoUrl, fetch |-> NoFetch,
     modelLoaded |-> FALSE, extraction |-> "ok"]
NoResult == Returned(Failure(""))

ProcInit ==
    /\ procCall = NoCall
    /\ procResult = NoResult

\* a call of processImage runs to its end
ProcessImage ==
    /\ \E imageBuffer \in ProcBuffers, extraction \in Extractions :
          /\ procCall' = [fn |-> "processImage", buffer |-> imageBuffer, url |-> NoUrl,
                          fetch |-> NoFetch, modelLoaded |-> modelLoaded,
                          extraction |-> extraction]
          /\ procResult' = processImage(imageBuffer, modelLoaded, extraction)
          /\ modelLoaded' = ModelLoadedAfter(validateImage(imageBuffer) = "",
                                             modelLoaded, extraction)
    /\ UNCHANGED <<dbInitialized, loaded, products, embeddings, catalog, reqs,
                   ehVars, shellVars, filterVars, apiVars, valVars, corsVars, genVars, simVars>>

\* a call of processImageFromUrl runs to its end
ProcessImageFromUrl ==
    /\ \E url \in ProcUrls, fetch \in Fetches, extraction \in Extractions :
          /\ procCall' = [fn |-> "processImageFromUrl", buffer |-> NoBuffer, url |-> url,
                          fetch |-> fetch, modelLoaded |-> modelLoaded,
                          extraction |-> extraction]
          /\ procResult' = processImageFromUrl(url, fetch, modelLoaded, extraction)
          /\ modelLoaded' =
                ModelLoadedAfter(/\ validateImageUrl(url)
                                 /\ fetch.kind = "ok"
                                 /\ validateImage(fetch.body) = "",
                                 modelLoaded, extraction)
    /\ UNCHANGED <<dbInitialized, loaded, products, embeddings, catalog, reqs,
                   ehVars, shellVars, filterVars, apiVars, valVars, corsVars, genVars, simVars>>

-----------------------------------------------------------------------------
(* ImageProcessor.js: validateImage called on its own *)

\* validateImage reaches sharp(imageBuffer).metadata(): both size checks passed
reachesDecoder(b) ==
    /\ ~b.nullish
    /\ ~(b.size > maxFileSizeBytes)
    /\ ~(b.size < minBufferBytes)

\* the object validateImage returns: {valid, error} or {valid: true, metadata}
validationResult(b) ==
    [valid |-> validateImage(b) = "",
     error |-> validateImage(b),
     decoded |-> reachesDecoder(b),
     hasMetadata |-> validateImage(b) = ""]

\* buffers at and beside every limit of validateImage
ValBuffers ==
    {Buffer(size, decodable, format, width, height) :
        size \in {minBufferBytes - 1, minBufferBytes, maxFileSizeBytes, maxFileSizeBytes + 1},
        decodable \in BOOLEAN,
        format \in {"jpeg", "tiff"},
        width \in {minWidth - 1, minWidth, maxWidth, maxWidth + 1},
        height \in {minHeight - 1, minHeight, maxHeight, maxHeight + 1}}
    \cup {NullBuffer}

ValInit ==
    /\ valBuffer = NoBuffer
    /\ valResult = [valid |-> FALSE, error |-> "", decoded |-> FALSE, hasMetadata |-> FALSE]

\* validateImage(imageBuffer) is called and returns
ValidateOnly ==
    /\ \E imageBuffer \in ValBuffers :
          /\ valBuffer' = imageBuffer
          /\ valResult' = validationResult(imageBuffer)
    /\ UNCHANGED nonValVars

-----------------------------------------------------------------------------
(* index.js: corsOptions *)

\* the Origin headers requests carry; "" is a request without the header
Origins ==
    {"", "http://localhost:5173", "http://localhost:3001", "https://app.example.com",
     "https://app.example.com.evil.com", "https://evil.example.com",
     "https://localhost.evil.com", "https://b.example.com"}

\* origin.includes('localhost')
IncludesLocalhost(origin) ==
    origin \in {"http://localhost:5173", "http://localhost:3001", "https://localhost.evil.com"}

\* url.trim()
Trim(url) ==
    CASE url = " https://b.example.com" -> "https://b.example.com"
      [] url = " http://localhost:5173 " -> "http://localhost:5173"
      [] OTHER -> url

\* values of NODE_ENV and of FRONTEND_URL (split at the commas)
NodeEnvs == {"", "development", "production", "test"}
FrontendUrls ==
    {<<>>,
     <<"https://app.example.com">>,
     <<"https://app.example.com", " https://b.example.com">>,
     <<" http://localhost:5173 ", "https://app.example.com">>}

\* allowedOrigins: FRONTEND_URL split and trimmed, or the default
allowedOrigins(url) ==
    IF url = <<>> THEN {"http://localhost:5173"}
    ELSE {Trim(url[i]) : i \in 1..Len(url)}

\* a variant of the callback without the leniency for localhost
originAllowedListOnly(origin, env, url) ==
    origin = "" \/ origin \in allowedOrigins(url)

\* corsOptions.origin(origin, callback): TRUE for callback(null, true)
originAllowed(origin, env, url) ==
    IF origin = "" THEN TRUE
    ELSE IF env = "development" /\ IncludesLocalhost(origin) THEN TRUE
    ELSE origin \in allowedOrigins(url)

\* the process starts with its environment
CorsInit(envs, urls) ==
    /\ nodeEnv \in envs
    /\ frontendUrl \in urls
    /\ corsOrigin = ""
    /\ corsAllowed = TRUE

\* the cors middleware calls the origin callback for a request
CorsCheck ==
    /\ \E origin \in Origins :
          /\ corsOrigin' = origin
          /\ corsAllowed' = originAllowed(origin, nodeEnv, frontendUrl)
    /\ UNCHANGED <<nodeEnv, frontendUrl, nonCorsVars>>

-----------------------------------------------------------------------------
(* scripts/generateEmbeddings.js: generateAllEmbeddings *)

\* the catalogs the script reads: ids in catalog order, one of them repeating an id
GenCatalogs == {[i \in 1..n |-> i] : n \in 0..MaxGenProducts} \cup {<<2, 1, 2>>}

\* how the body of the try block goes for one product: loadImageAsTensor throws,
\* extractEmbedding throws, or the embedding is stored
GenOutcomes == {"ok", "imageFails", "embeddingFails"}

\* the embedding extractEmbedding returns
GenEmbedding == <<1, 0>>

GenInit ==
    /\ genPc = "loadModel"
    /\ genProducts = <<>>
    /\ genIndex = 1
    /\ genEmbeddings = <<>>
    /\ successCount = 0
    /\ failCount = 0
    /\ genLog = <<>>
    /\ genWritten = <<>>
    /\ exitCode = -1
    /\ genFatal = ""

\* generateAllEmbeddings() rejects: .catch logs and calls process.exit(1)
GenFatalExit(step) ==
    /\ genPc' = "exited"
    /\ exitCode' = 1
    /\ genFatal' = step

\* await mobilenet.load(...)
GenLoadModel ==
    /\ genPc = "loadModel"
    /\ \/ /\ genPc' = "readCatalog"
          /\ UNCHANGED <<exitCode, genFatal>>
       \/ GenFatalExit("loadModel")
    /\ UNCHANGED <<genProducts, genIndex, genEmbeddings, successCount, failCount,
                   genLog, genWritten, nonGenVars>>

\* readFile and JSON.parse of products.json
GenReadCatalog ==
    /\ genPc = "readCatalog"
    /\ \/ /\ \E prods \in GenCatalogs : genProducts' = prods
          /\ genPc' = "loop"
          /\ UNCHANGED <<exitCode, genFatal>>
       \/ /\ GenFatalExit("readCatalog")
          /\ UNCHANGED genProducts
    /\ UNCHANGED <<genIndex, genEmbeddings, successCount, failCount,
                   genLog, genWritten, nonGenVars>>

\* a variant of the loop body without the try block: a failure rejects the run
GenProcessAborts ==
    /\ genPc = "loop"
    /\ genIndex <= Len(genProducts)
    /\ \E outcome \in GenOutcomes :
          /\ genLog' = Append(genLog, [id |-> genProducts[genIndex], outcome |-> outcome])
          /\ IF outcome = "ok"
             THEN /\ genEmbeddings' =
                        [id \in DOMAIN genEmbeddings \cup {genProducts[genIndex]} |->
                            GenEmbedding]
                  /\ successCount' = successCount + 1
                  /\ genIndex' = genIndex + 1
                  /\ UNCHANGED <<failCount, genPc, exitCode, genFatal>>
             ELSE /\ GenFatalExit("product")
                  /\ UNCHANGED <<genEmbeddings, successCount, failCount, genIndex>>
    /\ UNCHANGED <<genProducts, genWritten, nonGenVars>>

\* one pass of the for loop: the try block for products[i], or its catch
GenProcess ==
    /\ genPc = "loop"
    /\ genIndex <= Len(genProducts)
    /\ \E outcome \in GenOutcomes :
          /\ genLog' = Append(genLog, [id |-> genProducts[genIndex], outcome |-> outcome])
          /\ IF outcome = "ok"
             THEN /\ genEmbeddings' =
                        [id \in DOMAIN genEmbeddings \cup {genProducts[genIndex]} |->
                            GenEmbedding]
                  /\ successCount' = successCount + 1
                  /\ UNCHANGED failCount
             ELSE /\ failCount' = failCount + 1
                  /\ UNCHANGED <<genEmbeddings, successCount>>
    /\ genIndex' = genIndex + 1
    /\ UNCHANGED <<genPc, genProducts, genWritten, exitCode, genFatal, nonGenVars>>

\* after the loop: writeFile, the summary and the verification, then process.exit(0)
GenWrite ==
    /\ genPc = "loop"
    /\ genIndex > Len(genProducts)
    /\ \/ /\ genWritten' = Append(genWritten, genEmbeddings)
          /\ genPc' = "exited"
          /\ exitCode' = 0
          /\ UNCHANGED genFatal
       \/ /\ GenFatalExit("writeFile")
          /\ UNCHANGED genWritten
    /\ UNCHANGED <<genProducts, genIndex, genEmbeddings, successCount, failCount,
                   genLog, nonGenVars>>

-----------------------------------------------------------------------------
(* ImageProcessor.js: computeSimilarity called on its own *)

\* an argument of computeSimilarity: an array of numbers, or a value that is no array
ArrayArg(elems) == [isArray |-> TRUE, elems |-> elems]
NotArray == [isArray |-> FALSE, elems |-> <<>>]

SimVectors ==
    {<<>>, <<0>>, <<1>>, <<0, 0>>, <<1, 0>>, <<0, 1>>, <<1, 1>>, <<-1, 0>>,
     <<0, 0, 0>>, <<1, 2, 3>>}

SimArguments == {ArrayArg(v) : v \in SimVectors} \cup {NotArray}

\* a variant that tests for the empty array before it compares the lengths
computeSimilarityEmptyFirst(embedding1, embedding2) ==
    IF ~embedding1.isArray \/ ~embedding2.isArray
    THEN Threw("Embeddings must be arrays")
    ELSE IF Len(embedding1.elems) = 0
    THEN Threw("Embeddings cannot be empty")
    ELSE IF Len(embedding1.elems) # Len(embedding2.elems)
    THEN Threw("Embeddings must have the same length")
    ELSE Returned(cosineSimilarity(embedding1.elems, embedding2.elems))

\* computeSimilarity(embedding1, embedding2); the loop and the norms are those of
\* ProductDatabase.cosineSimilarity
computeSimilarity(embedding1, embedding2) ==
    IF ~embedding1.isArray \/ ~embedding2.isArray
    THEN Threw("Embeddings must be arrays")
    ELSE IF Len(embedding1.elems) # Len(embedding2.elems)
    THEN Threw("Embeddings must have the same length")
    ELSE IF Len(embedding1.elems) = 0
    THEN Threw("Embeddings cannot be empty")
    ELSE Returned(cosineSimilarity(embedding1.elems, embedding2.elems))

NoSimCall == <<NotArray, NotArray>>

SimInit ==
    /\ simArgs = NoSimCall
    /\ simResult = Threw("")

\* a caller calls computeSimilarity(a, b)
ComputeSimilarity ==
    /\ \E a \in SimArguments, b \in SimArguments :
          /\ simArgs' = <<a, b>>
          /\ simResult' = computeSimilarity(a, b)
    /\ UNCHANGED nonSimVars

-----------------------------------------------------------------------------
(* errorHandler called on its own *)

NoError == [name |-> "", code |-> "", message |-> "", statusCode |-> 0]
NoResponse == [status |-> 0, success |-> FALSE, code |-> "", error |-> "", actionable |-> ""]

\* no error has been handled yet
ehIdle == ehErr = NoError /\ ehRes = NoResponse

StatusCodes == {200, 400, 404, 418, 429, 500, 502, 503}

\* the errors errorHandler is given
Errors ==
    {APIError(code, message, statusCode) :
        code \in ErrorCodes \cup {"UNKNOWN_CODE"}, message \in {"", "custom message"},
        statusCode \in StatusCodes}
    \cup {[name |-> "MulterError", code |-> c, message |-> "multer", statusCode |-> 0] :
             c \in {"LIMIT_FILE_SIZE", "LIMIT_UNEXPECTED_FILE"}}
    \cup {[name |-> "ValidationError", code |-> "", message |-> m, statusCode |-> 0] :
             m \in {"", "bad field"}}
    \cup {GenericError(m) : m \in {"", "boom"}}

\* express calls errorHandler(err, req, res, next)
HandleError ==
    /\ \E err \in Errors :
          /\ ehErr' = err
          /\ ehRes' = errorHandler(err)
    /\ UNCHANGED nonEhVars

-----------------------------------------------------------------------------
(* frontend/src/services/api.js *)

\* the ways a request of the API client fails: an HTTP status, no response, setup
Failures ==
    {[kind |-> "response", status |-> st, dataError |-> "error text of the server"] :
        st \in {400, 413, 415, 429, 500, 503, 404}}
    \cup {[kind |-> "request", status |-> 0, dataError |-> ""],
          [kind |-> "setup", status |-> 0, dataError |-> ""]}

\* the failures the shell's searches are made to end with
ShellFailures ==
    {f \in Failures : f.kind = "request" \/ (f.kind = "response" /\ f.status \in {400, 500})}

\* a variant of the interceptor that retries nothing the server answered
responseInterceptorNoRetry(failure) ==
    [userMessage |-> "An error occurred", actionable |-> "Please try again",
     retryable |-> failure.kind # "response"]

\* the response interceptor's error branch: what it attaches to the error
responseInterceptor(failure) ==
    IF failure.kind = "response" THEN
        [userMessage |->
            CASE failure.status = 413 -> "Image file is too large"
              [] failure.status = 415 -> "Invalid image format"
              [] failure.status = 429 -> "Too many requests"
              [] failure.status \in {500, 503} -> "Service temporarily unavailable"
              [] OTHER -> IF failure.dataError # "" THEN failure.dataError
                          ELSE "An error occurred",
         actionable |->
            CASE failure.status = 400 -> "Please check your input and try again"
              [] failure.status = 413 -> "Please upload a smaller image (max 10MB)"
              [] failure.status = 415 -> "Please upload a JPEG, PNG, WebP, or GIF image"
              [] failure.status = 429 -> "Please wait a moment before trying again"
              [] failure.status \in {500, 503} -> "Please try again in a few moments"
              [] OTHER -> "Please try again",
         retryable |-> failure.status # 400 /\ failure.status # 413 /\ failure.status # 415]
    ELSE IF failure.kind = "request" THEN
        [userMessage |-> "Unable to connect to server",
         actionable |-> "Please check your internet connection and try again",
         retryable |-> TRUE]
    ELSE
        [userMessage |-> "An unexpected error occurred",
         actionable |-> "Please try again",
         retryable |-> TRUE]

\* the statuses axios rejects a response for (validateStatus: outside 200..299)
ErrorStatuses == 300..599

\* every failure the interceptor is given: a status with or without data.error,
\* no response, request setup
ApiFailures ==
    {[kind |-> "response", status |-> st, dataError |-> d] :
        st \in ErrorStatuses, d \in {"", "error text of the server"}}
    \cup {[kind |-> "request", status |-> 0, dataError |-> ""],
          [kind |-> "setup", status |-> 0, dataError |-> ""]}

NoFailure == [kind |-> "none", status |-> 0, dataError |-> ""]
NoRejection == [userMessage |-> "", actionable |-> "", retryable |-> FALSE]

ApiInit ==
    /\ apiFailure = NoFailure
    /\ apiRejected = NoRejection

\* a request of the API client fails: the interceptor's error branch runs and
\* rejects with the error
InterceptError ==
    /\ \E failure \in ApiFailures :
          /\ apiFailure' = failure
          /\ apiRejected' = responseInterceptor(failure)
    /\ UNCHANGED nonApiVars

-----------------------------------------------------------------------------
(* frontend/src/components/UploadInterface.jsx *)

SUPPORTED_FORMATS == {"image/jpeg", "image/png", "image/webp", "image/gif"}
MAX_FILE_SIZE == 10485760

File(name, type, size) == [name |-> name, type |-> type, size |-> size]
NoFile == File("", "", 0)

\* the files the user picks or drops
Files ==
    {File("a.jpg", "image/jpeg", 2048), File("b.bmp", "image/bmp", 2048),
     File("c.png", "image/png", MAX_FILE_SIZE + 1)}

\* the texts the user types in the URL field, and those new URL(text) parses
UrlTexts == {"https://example.com/a.jpg", "not-a-url"}
ParsableUrls == {"https://example.com/a.jpg"}

\* a variant of validateFile that leaves out the size check
validateFileTypeOnly(file) ==
    IF file.type \in {"image/jpeg", "image/png", "image/webp", "image/gif"}
    THEN "" ELSE "Invalid file type. Please upload JPEG, PNG, WebP, or GIF images."

\* validateFile(file): the error, "" for null
validateFile(file) ==
    IF file.type \notin SUPPORTED_FORMATS
    THEN "Invalid file type. Please upload JPEG, PNG, WebP, or GIF images."
    ELSE IF file.size > MAX_FILE_SIZE
    THEN "File size exceeds limit. Maximum allowed size is 10MB."
    ELSE ""

\* validateUrl(url): the error, "" for null
validateUrl(url) ==
    IF url \in ParsableUrls THEN "" ELSE "Invalid URL format. Please enter a valid image URL."

\* reader.onload's e.target.result for a file
DataUrl(file) == "data:" \o file.name

\* what onImageSubmit is given: a File or a URL string
FileData(file) == [isString |-> FALSE, url |-> "", file |-> file]
UrlData(url) == [isString |-> TRUE, url |-> url, file |-> NoFile]

UploadInit ==
    /\ inputType = "file"
    /\ imageUrl = ""
    /\ previewUrl = ""
    /\ selectedFile = NoFile
    /\ uiError = ""
    /\ reads = {}

\* handleFileSelect(file)
handleFileSelect(file) ==
    IF validateFile(file) # ""
    THEN /\ uiError' = validateFile(file)
         /\ previewUrl' = ""
         /\ selectedFile' = NoFile
         /\ UNCHANGED reads
    ELSE /\ uiError' = ""
         /\ selectedFile' = file
         /\ reads' = reads \cup {file}
         /\ UNCHANGED previewUrl

\* handleFileChange: the file input, disabled while isLoading
FileChange ==
    /\ inputType = "file"
    /\ ~isLoading
    /\ \E file \in Files : handleFileSelect(file)
    /\ UNCHANGED <<inputType, imageUrl, appVars, nonShellVars>>

\* handleDrop: the drop zone takes a drop whatever isLoading is
Drop ==
    /\ inputType = "file"
    /\ \E file \in Files : handleFileSelect(file)
    /\ UNCHANGED <<inputType, imageUrl, appVars, nonShellVars>>

\* reader.onload: a read ends and sets the preview
ReaderLoad ==
    /\ \E file \in reads :
          /\ previewUrl' = DataUrl(file)
          /\ reads' = reads \ {file}
    /\ UNCHANGED <<inputType, imageUrl, selectedFile, uiError, appVars, nonShellVars>>

\* the Upload File toggle, disabled while isLoading
ToggleFile ==
    /\ ~isLoading
    /\ inputType' = "file"
    /\ uiError' = ""
    /\ previewUrl' = ""
    /\ selectedFile' = NoFile
    /\ imageUrl' = ""
    /\ UNCHANGED <<reads, appVars, nonShellVars>>

\* the Use URL toggle, disabled while isLoading
ToggleUrl ==
    /\ ~isLoading
    /\ inputType' = "url"
    /\ uiError' = ""
    /\ previewUrl' = ""
    /\ selectedFile' = NoFile
    /\ UNCHANGED <<imageUrl, reads, appVars, nonShellVars>>

\* handleUrlChange: the URL field, disabled while isLoading
UrlChange ==
    /\ inputType = "url"
    /\ ~isLoading
    /\ \E text \in UrlTexts \cup {""} : imageUrl' = text
    /\ uiError' = ""
    /\ UNCHANGED <<inputType, previewUrl, selectedFile, reads, appVars, nonShellVars>>

\* handleUrlLoad: the Load button, disabled while isLoading or the field is empty
UrlLoad ==
    /\ inputType = "url"
    /\ ~isLoading
    /\ imageUrl # ""
    /\ IF validateUrl(imageUrl) # ""
       THEN uiError' = validateUrl(imageUrl) /\ previewUrl' = ""
       ELSE uiError' = "" /\ previewUrl' = imageUrl
    /\ UNCHANGED <<inputType, imageUrl, selectedFile, reads, appVars, nonShellVars>>

\* the submit button is enabled: disabled={isLoading || !previewUrl || error}
SubmitEnabled == ~isLoading /\ previewUrl # "" /\ uiError = ""

\* handleSubmit reaches onImageSubmit
Emits ==
    IF inputType = "file"
    THEN selectedFile # NoFile /\ uiError = ""
    ELSE imageUrl # "" /\ uiError = "" /\ previewUrl # ""

\* the value handleSubmit passes to onImageSubmit
Emitted == IF inputType = "file" THEN FileData(selectedFile) ELSE UrlData(imageUrl)

-----------------------------------------------------------------------------
(* frontend/src/components/SearchResults.jsx and FilterControl.jsx *)

\* similarity scores of the products handed to the component
Scores == {80, 95}

\* values the slider of FilterControl gives: integers from minScore 0 to maxScore 100
Thresholds == {0, 80, 88, 100}

RECURSIVE ListsUpTo(_)
ListsUpTo(n) ==
    IF n = 0 THEN {<<>>}
    ELSE ListsUpTo(n - 1)
         \cup {Append(l, [id |-> n, similarityScore |-> sc]) :
                  l \in {m \in ListsUpTo(n - 1) : Len(m) = n - 1}, sc \in Scores}

\* the lists App passes as props.products
ProductLists == ListsUpTo(MaxResults)

\* a variant of the filter with a strict comparison
filterProductsStrict(prods, t) ==
    SelectSeq(prods, LAMBDA product : product.similarityScore > t)

\* products.filter(product => product.similarityScore >= threshold)
RECURSIVE filterProducts(_, _)
filterProducts(prods, t) ==
    IF prods = <<>> THEN <<>>
    ELSE (IF prods[1].similarityScore >= t THEN <<prods[1]>> ELSE <<>>)
         \o filterProducts(Tail(prods), t)

\* the resultCount prop given to FilterControl
resultCount == Len(filteredProducts)

\* the component is mounted with products = []; both effects of the first render wait
FilterInit ==
    /\ srProducts = <<>>
    /\ filteredProducts = <<>>
    /\ threshold = 0
    /\ pendingEffects = {"products", "threshold"}

\* App renders the component with a new products array: both effects are scheduled
NewProducts ==
    /\ \E list \in ProductLists : srProducts' = list
    /\ pendingEffects' = {"products", "threshold"}
    /\ UNCHANGED <<filteredProducts, threshold, nonFilterVars>>

\* handleThresholdChange(newThreshold): the slider is shown when there are products
ThresholdChange ==
    /\ Len(srProducts) > 0
    /\ \E newThreshold \in Thresholds :
          /\ newThreshold # threshold
          /\ threshold' = newThreshold
    /\ pendingEffects' = pendingEffects \cup {"threshold"}
    /\ UNCHANGED <<srProducts, filteredProducts, nonFilterVars>>

\* what the pending effects, run in the order they are declared, leave in filteredProducts
EffectsResult(pending, prods, t, current) ==
    LET afterFirst == IF "products" \in pending THEN prods ELSE current
    IN  IF "threshold" \in pending THEN filterProducts(prods, t) ELSE afterFirst

\* React runs the scheduled effects: setFilteredProducts(products), then
\* setFilteredProducts(filtered); the last call decides the state
RunEffects ==
    /\ pendingEffects # {}
    /\ filteredProducts' = EffectsResult(pendingEffects, srProducts, threshold, filteredProducts)
    /\ pendingEffects' = {}
    /\ UNCHANGED <<srProducts, threshold, nonFilterVars>>

-----------------------------------------------------------------------------
(* frontend/src/App.jsx *)

MAX_RETRIES == 2

NoDescriptor == [set |-> FALSE, message |-> "", actionable |-> "", retryable |-> FALSE]

\* the lists of results a search answers with
ResultLists ==
    {<<>>, <<[id |-> "A", similarityScore |-> 95], [id |-> "B", similarityScore |-> 87]>>}

NoChain ==
    [st |-> "none", imageData |-> UrlData(""),
     retryCount |-> 0,           \* retryCount as the closure of this submission holds it
     delay |-> 0,                \* the delay of the timer last set
     attempts |-> 0,             \* history: searchByImage calls made
     failures |-> 0,             \* history: calls that ended in a retryable error
     results |-> <<>>,           \* history: response.results of the call that resolved
     surfaced |-> NoDescriptor]  \* history: the descriptor its catch block gave setError

AppInit ==
    /\ uploadedImage = ""
    /\ searchResults = <<>>
    /\ isLoading = FALSE
    /\ error = NoDescriptor
    /\ retryCount = 0
    /\ chains = [c \in 1..MaxSubmissions |-> NoChain]

ShellInit == AppInit /\ UploadInit

\* typeof imageData === 'string' ? imageData : URL.createObjectURL(imageData)
PreviewOf(imageData) ==
    IF imageData.isString THEN imageData.url ELSE "blob:" \o imageData.file.name

\* handleImageSubmit up to its await: the state it sets before searchByImage answers
CallStarts(imageData) ==
    /\ isLoading' = TRUE
    /\ error' = NoDescriptor
    /\ uploadedImage' = PreviewOf(imageData)

\* the user submits the form; handleImageSubmit of the current render runs
Submit ==
    /\ SubmitEnabled
    /\ Emits
    /\ \E c \in 1..MaxSubmissions :
          /\ chains[c].st = "none"
          /\ \A d \in 1..(c - 1) : chains[d].st # "none"
          /\ chains' = [chains EXCEPT ![c] =
                          [NoChain EXCEPT !.st = "inflight", !.imageData = Emitted,
                                          !.retryCount = retryCount, !.attempts = 1]]
    /\ CallStarts(Emitted)
    /\ UNCHANGED <<searchResults, retryCount, uiVars, nonShellVars>>

\* searchByImage resolves: the try block ends, then finally
Resolve(c) ==
    /\ chains[c].st = "inflight"
    /\ \E results \in ResultLists : searchResults' = results
    /\ retryCount' = 0
    /\ isLoading' = FALSE
    /\ chains' = [chains EXCEPT ![c].st = "succeeded", ![c].results = searchResults']
    /\ UNCHANGED <<uploadedImage, error, uiVars, nonShellVars>>

\* the catch branch that retries
Retries(c, err) == err.retryable /\ chains[c].retryCount < MAX_RETRIES

\* a variant of the catch block that stores the retryable flag of the error as it is
RejectKeepsRetryable(c, failures) ==
    /\ chains[c].st = "inflight"
    /\ \E failure \in failures :
         LET err == responseInterceptor(failure)
         IN  IF Retries(c, err)
             THEN /\ retryCount' = retryCount + 1
                  /\ chains' = [chains EXCEPT
                                  ![c].st = "timer",
                                  ![c].delay = 1000 * (chains[c].retryCount + 1),
                                  ![c].failures = @ + 1]
                  /\ UNCHANGED error
             ELSE /\ error' = [set |-> TRUE,
                               message |-> err.userMessage,
                               actionable |-> err.actionable,
                               retryable |-> err.retryable]
                  /\ retryCount' = 0
                  /\ chains' = [chains EXCEPT
                                  ![c].st = "failed",
                                  ![c].failures = IF err.retryable THEN @ + 1 ELSE @,
                                  ![c].surfaced = error']
    /\ isLoading' = FALSE
    /\ UNCHANGED <<uploadedImage, searchResults, uiVars, nonShellVars>>

\* a variant of the catch block that also empties the results when it sets the error
RejectClearsResults(c, failures) ==
    /\ chains[c].st = "inflight"
    /\ \E failure \in failures :
         LET err == responseInterceptor(failure)
         IN  IF Retries(c, err)
             THEN /\ retryCount' = retryCount + 1
                  /\ chains' = [chains EXCEPT
                                  ![c].st = "timer",
                                  ![c].delay = 1000 * (chains[c].retryCount + 1),
                                  ![c].failures = @ + 1]
                  /\ UNCHANGED <<error, searchResults>>
             ELSE /\ error' = [set |-> TRUE,
                               message |-> err.userMessage,
                               actionable |-> err.actionable,
                               retryable |-> FALSE]
                  /\ retryCount' = 0
                  /\ searchResults' = <<>>
                  /\ chains' = [chains EXCEPT
                                  ![c].st = "failed",
                                  ![c].failures = IF err.retryable THEN @ + 1 ELSE @,
                                  ![c].surfaced = error']
    /\ isLoading' = FALSE
    /\ UNCHANGED <<uploadedImage, uiVars, nonShellVars>>

\* searchByImage rejects: the catch block, then finally
Reject(c, failures) ==
    /\ chains[c].st = "inflight"
    /\ \E failure \in failures :
         LET err == responseInterceptor(failure)
         IN  IF Retries(c, err)
             THEN /\ retryCount' = retryCount + 1
                  /\ chains' = [chains EXCEPT
                                  ![c].st = "timer",
                                  ![c].delay = 1000 * (chains[c].retryCount + 1),
                                  ![c].failures = @ + 1]
                  /\ UNCHANGED error
             ELSE /\ error' = [set |-> TRUE,
                               message |-> err.userMessage,
                               actionable |-> err.actionable,
                               retryable |-> err.retryable
                                             /\ chains[c].retryCount < MAX_RETRIES]
                  /\ retryCount' = 0
                  /\ chains' = [chains EXCEPT
                                  ![c].st = "failed",
                                  ![c].failures = IF err.retryable THEN @ + 1 ELSE @,
                                  ![c].surfaced = error']
    /\ isLoading' = FALSE
    /\ UNCHANGED <<uploadedImage, searchResults, uiVars, nonShellVars>>

\* {error.retryable && <button onClick={handleRetry}>Try Again</button>}
TryAgainRendered == error.set /\ error.retryable

\* the timer set by the catch block fires: handleImageSubmit(imageData) of the same
\* closure runs again
TimerFires(c) ==
    /\ chains[c].st = "timer"
    /\ chains[c].attempts < MaxAttempts
    /\ chains' = [chains EXCEPT ![c].st = "inflight", ![c].attempts = @ + 1]
    /\ CallStarts(chains[c].imageData)
    /\ UNCHANGED <<searchResults, retryCount, uiVars, nonShellVars>>

\* the browser shell: the upload component and the application state
InitShell == ServerInit({CatalogFile(0, 1, 0, FALSE)}) /\ ehIdle /\ ShellInit /\ FilterInit /\ ApiInit /\ ProcInit /\ ValInit
    /\ CorsInit({"development"}, {<<>>}) /\ GenInit /\ SimInit
NextShell ==
    \/ FileChange
    \/ Drop
    \/ ReaderLoad
    \/ ToggleFile
    \/ ToggleUrl
    \/ UrlChange
    \/ UrlLoad
    \/ Submit
    \/ \E c \in 1..MaxSubmissions : Resolve(c) \/ Reject(c, ShellFailures) \/ TimerFires(c)
SpecShell == InitShell /\ [][NextShell]_vars

\* failures that are not retried: the server answers 400
FinalFailures == {f \in Failures : f.kind = "response" /\ f.status = 400}

\* the upload component in full, under a shell whose searches end at the first answer
InitUpload == InitShell
NextUpload ==
    \/ FileChange
    \/ Drop
    \/ ReaderLoad
    \/ ToggleFile
    \/ ToggleUrl
    \/ UrlChange
    \/ UrlLoad
    \/ Submit
    \/ \E c \in 1..MaxSubmissions : Resolve(c) \/ Reject(c, FinalFailures)
SpecUpload == InitUpload /\ [][NextUpload]_vars

\* the answers of a server that fails: 400 is final, 500 is retried
AppFailures == {f \in Failures : f.kind = "response" /\ f.status \in {400, 500}}

\* the calls followed for one submission there: the first and MAX_RETRIES retries
AppCalls == MAX_RETRIES + 1

\* the application state under submissions of a chosen file, with retries
InitApp == InitShell
NextApp ==
    \/ FileChange
    \/ ReaderLoad
    \/ Submit
    \/ \E c \in 1..MaxSubmissions :
          \/ Resolve(c)
          \/ Reject(c, AppFailures)
          \/ chains[c].attempts < AppCalls /\ TimerFires(c)
SpecApp == InitApp /\ [][NextApp]_vars

\* the results component under new product lists and threshold changes
InitFilter == InitShell
NextFilter ==
    \/ NewProducts
    \/ ThresholdChange
    \/ RunEffects
SpecFilter == InitFilter /\ [][NextFilter]_vars

\* the API client's response interceptor under every failure
InitApi == InitShell
NextApi == InterceptError
SpecApi == InitApi /\ [][NextApi]_vars

\* processImage and processImageFromUrl under every input and stage outcome
InitProc == InitShell
NextProc ==
    \/ ProcessImage
    \/ ProcessImageFromUrl
SpecProc == InitProc /\ [][NextProc]_vars

\* validateImage under buffers at every limit
InitVal == InitShell
NextVal == ValidateOnly
SpecVal == InitVal /\ [][NextVal]_vars

\* the CORS origin callback under every environment
InitCors ==
    /\ ServerInit({CatalogFile(0, 1, 0, FALSE)}) /\ ehIdle /\ ShellInit /\ FilterInit
    /\ ApiInit /\ ProcInit /\ ValInit
    /\ CorsInit(NodeEnvs, FrontendUrls) /\ GenInit /\ SimInit
NextCors == CorsCheck
SpecCors == InitCors /\ [][NextCors]_vars

\* errorHandler driven with every kind of error
InitErr == InitShell
NextErr == HandleError
SpecErr == InitErr /\ [][NextErr]_vars

-----------------------------------------------------------------------------
(* The specifications *)

\* the server under concurrent requests
Init == ServerInit(SmallCatalogs) /\ ehIdle /\ ShellInit /\ FilterInit /\ ApiInit /\ ProcInit /\ ValInit
    /\ CorsInit({"development"}, {<<>>}) /\ GenInit /\ SimInit
Next ==
    \E r \in 1..NReq :
        \/ Arrive(r, FewInputs)
        \/ Start(r)
        \/ LoadProducts(r)
        \/ LoadEmbeddings(r)
        \/ LoadModel(r)
        \/ LoadImageFromUrl(r)
        \/ ValidateImage(r)
        \/ ExtractFeatures(r, FewQueries)
        \/ Finish(r)
Spec == Init /\ [][Next]_vars

\* the server serving one request after another, over the rich catalogs
InitSearch == ServerInit(RichCatalogs) /\ ehIdle /\ ShellInit /\ FilterInit /\ ApiInit /\ ProcInit /\ ValInit
    /\ CorsInit({"development"}, {<<>>}) /\ GenInit /\ SimInit
NextSearch ==
    \/ Arrive(1, AllInputs)
    \/ Start(1)
    \/ LoadProducts(1)
    \/ LoadEmbeddings(1)
    \/ LoadModel(1)
    \/ LoadImageFromUrl(1)
    \/ ValidateImage(1)
    \/ ExtractFeatures(1, Queries)
    \/ Finish(1)
SpecSearch == InitSearch /\ [][NextSearch]_vars

\* the embedding-generation script run from its start
InitGen == InitShell
NextGen == GenLoadModel \/ GenReadCatalog \/ GenProcess \/ GenWrite
SpecGen == InitGen /\ [][NextGen]_vars

\* computeSimilarity called with any two arguments
InitSim == InitShell
NextSim == ComputeSimilarity
SpecSim == InitSim /\ [][NextSim]_vars

-----------------------------------------------------------------------------
(* Properties of the server *)

\* a request that got a successful /api/search response
Answered(r) == reqs[r].pc = "done" /\ reqs[r].route = "search" /\ reqs[r].res.success

\* C1: in every successful /api/search response, each result's similarityScore is
\* at least the similarityScore of the result that follows it.
C1_ResultsDescending ==
    \A r \in 1..NReq :
        Answered(r) =>
            \A i \in 1..(Len(reqs[r].res.results) - 1) :
                reqs[r].res.results[i].similarityScore
                    >= reqs[r].res.results[i + 1].similarityScore

\* a response whose first result was behind its second in the catalog and outscores it
C1_Witness ==
    \E r \in 1..NReq :
        /\ Answered(r)
        /\ Len(reqs[r].res.results) >= 3
        /\ reqs[r].res.results[1].similarityScore > reqs[r].res.results[2].similarityScore
        /\ reqs[r].res.results[1].id > reqs[r].res.results[2].id

\* C8: every similarityScore of a successful /api/search response is an integer
\* from 0 to 100, whatever the query embedding and the catalog embeddings are.
C8_ScoreWithin0And100 ==
    \A r \in 1..NReq :
        Answered(r) =>
            \A i \in 1..Len(reqs[r].res.results) :
                reqs[r].res.results[i].similarityScore \in 0..100

\* the catalog products that have an embedding
Embedded == {i \in 1..Len(products) : HasEmbedding(embeddings, products[i])}

Min(a, b) == IF a < b THEN a ELSE b

\* the raw score searchSimilar gives product id for the query q
ScoreOf(q, id) == cosineSimilarity(q, embeddings[id])

\* what C9 says of one list searchSimilar returned for the query q and topK
TopKOfCatalog(q, topK, results) ==
    /\ Len(results) = Min(topK, Cardinality(Embedded))
    /\ \A i \in 1..Len(results) : \A j \in Embedded :
          (\A k \in 1..Len(results) : results[k].product # products[j])
              => ScoreGE(results[i].score, ScoreOf(q, products[j]))

\* C9: searchSimilar returns min(topK, n) entries, n the number of products with an
\* embedding, and no product left out outscores a returned one; a /api/search
\* response has at most 20 results, ranks 1, 2, ... and count = number of results.
C9_TopK ==
    \A r \in 1..NReq :
        Answered(r) =>
            LET res == reqs[r].res
                q == reqs[r].embedding
            IN  /\ Len(res.results) <= 20
                /\ res.count = Len(res.results)
                /\ \A i \in 1..Len(res.results) : res.results[i].rank = i
                /\ Len(res.results) = Min(20, Cardinality(Embedded))
                /\ \A i \in 1..Len(res.results) : \A j \in Embedded :
                      (\A k \in 1..Len(res.results) : res.results[k].id # products[j])
                          => ScoreGE(ScoreOf(q, res.results[i].id), ScoreOf(q, products[j]))
                /\ \A topK \in 0..MaxTopK :
                      TopKOfCatalog(q, topK, searchSimilar(products, embeddings, q, topK))

\* a response of 20 results cut from a catalog with more embedded products, one of
\* those left out scoring strictly less than the last result
C9_Witness ==
    \E r \in 1..NReq :
        /\ Answered(r)
        /\ reqs[r].res.count = 20
        /\ Cardinality(Embedded) > 20
        /\ \E j \in Embedded :
              /\ \A k \in 1..20 : reqs[r].res.results[k].id # products[j]
              /\ ~ScoreGE(ScoreOf(reqs[r].embedding, products[j]),
                          ScoreOf(reqs[r].embedding, reqs[r].res.results[20].id))

\* a request whose handler called searchSimilar, and its call failing
Searched(r) ==
    /\ reqs[r].pc = "done" /\ reqs[r].route = "search"
    /\ \E i \in 1..Len(reqs[r].stages) : reqs[r].stages[i] = "searchSimilar"
SearchFailed(r) == reqs[r].failed = "searchSimilar"

\* the catalog is loaded, some of its products have no embedding, and every
\* embedding there is has the length of the query of request r
SomeWithoutEmbedding(r) ==
    /\ loaded
    /\ \E i \in 1..Len(products) : ~HasEmbedding(embeddings, products[i])
    /\ \A id \in DOMAIN embeddings : Len(embeddings[id]) = Len(reqs[r].embedding)

\* the results of request r come from products that have an embedding, one result
\* for each of them up to 20
OnlyEmbeddedProducts(r) ==
    /\ ~SearchFailed(r)
    /\ reqs[r].res.success
    /\ \A i \in 1..Len(reqs[r].res.results) :
          HasEmbedding(embeddings, reqs[r].res.results[i].id)
    /\ Len(reqs[r].res.results) = Min(20, Cardinality(Embedded))

BothInputsChosen(r) ==
    /\ reqs[r].route = "search" /\ reqs[r].hasFile /\ reqs[r].url.given
    /\ \E i \in 1..Len(reqs[r].stages) : reqs[r].stages[i] = "input"

StageOrder ==
    <<"loadProducts", "loadEmbeddings", "loadModel", "input", "validateImageUrl",
      "loadImageFromUrl", "validateImage", "extractFeatures", "searchSimilar">>

StagePos(stage) == CHOOSE i \in 1..Len(StageOrder) : StageOrder[i] = stage

\* a URL that is not an http or https URL
BadUrlFormat(url) == ~url.parses \/ url.protocol \notin {"http:", "https:"}

LoadStages == {"loadProducts", "loadEmbeddings", "loadModel"}

\* C4 for the requests as they stand: a request whose initialization failed got an
\* error response, and a request that arrived with dbInitialized set ran no load step
C4_State ==
    \A r \in 1..NReq :
        /\ reqs[r].failed \in LoadStages =>
              reqs[r].pc = "done" /\ ~reqs[r].res.success /\ reqs[r].res.status = 500
        /\ reqs[r].arrivedInit =>
              \A i \in 1..Len(reqs[r].stages) : reqs[r].stages[i] \notin LoadStages

\* C4 for one step: a load step that fails leaves dbInitialized as it was; a handler
\* starts with the load steps exactly when dbInitialized is false; dbInitialized,
\* once true, stays true
C4_Step ==
    /\ \A r \in 1..NReq :
          /\ (reqs[r].failed = "" /\ reqs'[r].failed \in LoadStages) =>
                dbInitialized' = dbInitialized
          /\ (reqs[r].pc = "handler" /\ reqs'[r].pc # "handler") =>
                (reqs'[r].pc = "loadProducts" <=> ~dbInitialized)
    /\ dbInitialized => dbInitialized'

\* C4: a failed loadProducts, loadEmbeddings or loadModel fails the triggering
\* request and leaves dbInitialized false; every request starting while it is false
\* attempts initialization again; once it is true, no request arriving afterwards
\* runs a load step.
C4_InitRetried == []C4_State /\ [][C4_Step]_vars

\* a request that failed in loadModel, and beside it a request that arrived after a
\* later attempt succeeded and was answered without a load step
C4_Witness ==
    \E r1, r2 \in 1..NReq :
        /\ reqs[r1].failed = "loadModel"
        /\ reqs[r2].arrivedInit
        /\ reqs[r2].pc = "done"
        /\ reqs[r2].res.success
        /\ reqs[r2].stages # <<>>

-----------------------------------------------------------------------------
(* Properties of the initialization under concurrent requests *)

\* this step is loadProducts of request r assigning this.products
WritesProducts(r) ==
    reqs[r].pc = "loadProducts" /\ reqs'[r].pc = "loadEmbeddings"

\* this step is loadEmbeddings of request r assigning this.embeddings
WritesEmbeddings(r) ==
    /\ reqs[r].pc = "loadEmbeddings"
    /\ reqs'[r].pc # "loadEmbeddings"
    /\ reqs'[r].failed # "loadEmbeddings"

\* C17: once dbInitialized is true, no step writes the product list or the embedding
\* map, whatever the interleaving of the requests.
C17_NoWriteAfterInit ==
    [][dbInitialized =>
          \A r \in 1..NReq : ~WritesProducts(r) /\ ~WritesEmbeddings(r)]_vars

\* this step is mobilenet.load of request r ending well: this.model is assigned
CompletesModelLoad(r) ==
    /\ reqs[r].pc = "loadModel"
    /\ reqs'[r].pc # "loadModel"
    /\ reqs'[r].failed # "loadModel"

\* this step is request r calling loadModel and starting mobilenet.load
StartsModelLoad(r) ==
    reqs[r].pc = "loadEmbeddings" /\ reqs'[r].pc = "loadModel"

-----------------------------------------------------------------------------
(* Properties of errorHandler *)

\* the status C10 gives for each code
CanonicalStatus(code) ==
    CASE code \in {"INVALID_IMAGE", "VALIDATION_ERROR"} -> 400
      [] code = "RATE_LIMIT_EXCEEDED" -> 429
      [] code \in {"PROCESSING_ERROR", "DATABASE_ERROR"} -> 500
      [] code = "SERVICE_UNAVAILABLE" -> 503

\* C10: for an APIError with one of the six codes, errorHandler answers with the
\* canonical status of the code, whatever statusCode the error was built with, and
\* the body's code is the error's code.
C10_CanonicalStatus ==
    (ehErr.name = "APIError" /\ ehErr.code \in ErrorCodes) =>
        /\ ehRes.status = CanonicalStatus(ehErr.code)
        /\ ehRes.code = ehErr.code

\* a RATE_LIMIT_EXCEEDED error built with statusCode 500 was answered with 429
C10_Witness ==
    /\ ehErr.name = "APIError"
    /\ ehErr.code = "RATE_LIMIT_EXCEEDED"
    /\ ehErr.statusCode = 500
    /\ ehRes.status = 429
    /\ ehRes.code = "RATE_LIMIT_EXCEEDED"

\* the errors C11 speaks of: an APIError with one of the six codes, a MulterError,
\* an error named ValidationError, a generic Error
C11_Covers(err) ==
    \/ err.name = "APIError" /\ err.code \in ErrorCodes
    \/ err.name \in {"MulterError", "ValidationError", "Error"}

\* C11: for each of these errors the response has a status in 400..599 and a body
\* with success false, non-empty error and actionable, and a code of ErrorCodes;
\* MulterError and ValidationError give 400, generic errors give 500.
C11_ResponseWellFormed ==
    C11_Covers(ehErr) =>
        /\ ehRes.status \in 400..599
        /\ ehRes.success = FALSE
        /\ ehRes.error # ""
        /\ ehRes.actionable # ""
        /\ ehRes.code \in ErrorCodes
        /\ ehErr.name \in {"MulterError", "ValidationError"} => ehRes.status = 400
        /\ ehErr.name = "Error" => ehRes.status = 500

\* C25: in every response of errorHandler the HTTP status is the status errorMapping
\* assigns to the code of the body, for APIError, MulterError, ValidationError and
\* generic errors alike.
C25_StatusMatchesBodyCode ==
    (ehErr # NoError /\ ehRes.code \in ErrorCodes) => ehRes.status = errorMapping(ehRes.code)

-----------------------------------------------------------------------------
(* Properties of processImage and processImageFromUrl *)

\* the image the last call validated, if it came that far
CallImage == IF procCall.fn = "processImage" THEN procCall.buffer ELSE procCall.fetch.body

\* an image that passes every check of validateImage
ImageAcceptable(b) ==
    /\ ~b.nullish
    /\ b.size >= 100 /\ b.size <= 10 * 1024 * 1024
    /\ b.decodable
    /\ b.format \in {"jpeg", "png", "webp", "gif"}
    /\ b.width >= 50 /\ b.height >= 50
    /\ b.width <= 4096 /\ b.height <= 4096

\* no stage of the last call failed
AllStagesSucceeded ==
    /\ procCall.fn = "processImageFromUrl" =>
          /\ procCall.url.parses /\ procCall.url.protocol \in {"http:", "https:"}
          /\ procCall.fetch.kind = "ok"
    /\ ImageAcceptable(CallImage)
    /\ procCall.modelLoaded \/ procCall.extraction # "loadFails"
    /\ procCall.extraction \notin {"tensorFails", "inferFails"}

\* C13: processImage and processImageFromUrl never throw; when a stage fails they
\* return success false with a non-empty error and no embedding; they return success
\* true with embedding and metadata only when every stage succeeded.
C13_NeverThrows ==
    procCall.fn # "" =>
        /\ ~procResult.threw
        /\ procResult.value.success = AllStagesSucceeded
        /\ procResult.value.success =>
              /\ procResult.value.hasEmbedding
              /\ procResult.value.hasMetadata
              /\ ~procResult.value.hasError
        /\ ~procResult.value.success =>
              /\ procResult.value.hasError
              /\ procResult.value.error # ""
              /\ ~procResult.value.hasEmbedding

\* processImageFromUrl fetched a good image and the inference failed: it returned
\* success false with the error of the extraction
C13_Witness ==
    /\ procCall.fn = "processImageFromUrl"
    /\ procCall.fetch.kind = "ok"
    /\ ImageAcceptable(procCall.fetch.body)
    /\ procCall.extraction = "inferFails"
    /\ ~procResult.threw
    /\ ~procResult.value.success
    /\ procResult.value.error = "Failed to extract image features: inference failed"

-----------------------------------------------------------------------------
(* Properties of validateImage *)

\* validateImage has been called with a buffer
Validated == valBuffer # NoBuffer /\ ~valBuffer.nullish

\* the checks of C15 in their order; the number of the first that the buffer fails,
\* 0 when it passes all
FirstFailedCheck(b) ==
    CASE b.size > 10 * 1024 * 1024 -> 1
      [] b.size <= 10 * 1024 * 1024 /\ b.size < 100 -> 2
      [] b.size \in 100..(10 * 1024 * 1024) /\ ~b.decodable -> 3
      [] b.size \in 100..(10 * 1024 * 1024) /\ b.decodable
         /\ b.format \notin {"jpeg", "png", "webp", "gif"} -> 4
      [] b.size \in 100..(10 * 1024 * 1024) /\ b.decodable
         /\ b.format \in {"jpeg", "png", "webp", "gif"}
         /\ (b.width < 50 \/ b.height < 50) -> 5
      [] b.size \in 100..(10 * 1024 * 1024) /\ b.decodable
         /\ b.format \in {"jpeg", "png", "webp", "gif"}
         /\ b.width >= 50 /\ b.height >= 50
         /\ (b.width > 4096 \/ b.height > 4096) -> 6
      [] OTHER -> 0

\* the rejection of each check
RejectionOf(check) ==
    CASE check = 1 -> "Image size exceeds maximum allowed size of 10MB"
      [] check = 2 -> "Image file is too small or corrupted"
      [] check = 3 -> "Invalid or corrupted image file"
      [] check = 4 -> "Unsupported image format"
      [] check = 5 -> "Image dimensions too small"
      [] check = 6 -> "Image dimensions too large"
      [] OTHER -> ""

\* C15: validateImage returns the rejection of the first check that fails, in the
\* order size > 10 MiB, size < 100, decodable, format, minimum and maximum
\* dimensions; a buffer over 10 MiB is rejected without being decoded; 10 MiB exactly,
\* 50 and 4096 are accepted; valid is true only if every check passes.
C15_ChecksInOrder ==
    Validated =>
        /\ valResult.error = RejectionOf(FirstFailedCheck(valBuffer))
        /\ valResult.valid = (FirstFailedCheck(valBuffer) = 0)
        /\ valBuffer.size > 10 * 1024 * 1024 => ~valResult.decoded
        /\ valResult.valid => valResult.hasMetadata

\* an undecodable buffer of 10 MiB + 1 bytes was rejected for its size, undecoded
C15_Witness ==
    /\ valBuffer.size = 10 * 1024 * 1024 + 1
    /\ ~valBuffer.decodable
    /\ ~valResult.valid
    /\ valResult.error = "Image size exceeds maximum allowed size of 10MB"
    /\ ~valResult.decoded

-----------------------------------------------------------------------------
(* Properties of the CORS origin check *)

-----------------------------------------------------------------------------
(* Properties of the API client *)

\* C12: a failed request is marked retryable exactly when no response was received,
\* or request setup failed, or the status is none of 400, 413 and 415; every
\* rejected request carries userMessage, actionable and retryable.
C12_RetryableRule ==
    apiFailure.kind # "none" =>
        /\ apiRejected.retryable =
              (\/ apiFailure.kind \in {"request", "setup"}
               \/ apiFailure.status \notin {400, 413, 415})
        /\ apiRejected.retryable \in BOOLEAN
        /\ apiRejected.userMessage # ""
        /\ apiRejected.actionable # ""

\* a 429 response was rejected as retryable
C12_Witness ==
    /\ apiFailure.kind = "response"
    /\ apiFailure.status = 429
    /\ apiRejected.retryable
    /\ apiRejected.userMessage = "Too many requests"

-----------------------------------------------------------------------------
(* Properties of the upload component *)

\* a file of a supported MIME type and of at most 10 MiB
FileAcceptable(file) ==
    /\ file.type \in {"image/jpeg", "image/png", "image/webp", "image/gif"}
    /\ file.size <= 10 * 1024 * 1024

\* the submissions this step starts by calling onImageSubmit
Emitting(c) == chains[c].st = "none" /\ chains'[c].st = "inflight"

\* C14 for the state: the stored file passed validateFile, every file emitted did,
\* and while the component's error is set the submit button is disabled and no
\* rejected file is stored
C14_State ==
    /\ selectedFile # NoFile => FileAcceptable(selectedFile)
    /\ \A c \in 1..MaxSubmissions :
          (chains[c].st # "none" /\ ~chains[c].imageData.isString) =>
              FileAcceptable(chains[c].imageData.file)
    /\ uiError # "" =>
          /\ ~SubmitEnabled
          /\ inputType = "file" => selectedFile = NoFile

\* C14 for one step: onImageSubmit is called only with a preview and without an
\* error, and with the stored file (file mode) or the URL string (URL mode)
C14_Step ==
    \A c \in 1..MaxSubmissions :
        Emitting(c) =>
            /\ previewUrl # ""
            /\ uiError = ""
            /\ inputType = "file" =>
                  /\ selectedFile # NoFile
                  /\ chains'[c].imageData = FileData(selectedFile)
            /\ inputType = "url" =>
                  /\ imageUrl # ""
                  /\ chains'[c].imageData = UrlData(imageUrl)

\* C14: the upload component calls onImageSubmit only when a preview exists and no
\* validation error is pending; it emits the stored file that passed validateFile or
\* the URL string; a rejected file is never stored nor emitted, and after a rejection
\* the submit button is disabled.
C14_SubmitsOnlyValidated == []C14_State /\ [][C14_Step]_vars

\* a file was submitted, and afterwards an oversize file was dropped and rejected:
\* the error is set, nothing is stored and the button is disabled
C14_Witness ==
    /\ chains[1].st # "none"
    /\ ~chains[1].imageData.isString
    /\ uiError = "File size exceeds limit. Maximum allowed size is 10MB."
    /\ selectedFile = NoFile
    /\ ~SubmitEnabled

\* C27: in URL mode, whenever the component emits a URL to onImageSubmit, that URL
\* is the one that passed validateUrl at the last Load and it is the preview shown.
C27_EmitsLoadedUrl ==
    [][\A c \in 1..MaxSubmissions :
          (Emitting(c) /\ inputType = "url") =>
              /\ chains'[c].imageData.isString
              /\ chains'[c].imageData.url = previewUrl
              /\ validateUrl(chains'[c].imageData.url) = ""]_vars

\* a step taken by the user on the upload component: the application state stays
\* as it is and no preview read ends
UserActsOnUpload == UNCHANGED appVars /\ reads \subseteq reads'

\* C28: while isLoading is true no user action on the upload component changes its
\* stored file, preview, URL text, input mode or error.
C28_InertWhileLoading ==
    [][(isLoading /\ UserActsOnUpload) =>
          UNCHANGED <<selectedFile, previewUrl, imageUrl, inputType, uiError>>]_vars

\* C29: in file mode, whenever a preview is set it is the preview of the file
\* currently stored; a read that ends after a later selection, a rejected selection
\* or a mode switch does not set the preview.
C29_PreviewOfStoredFile ==
    (inputType = "file" /\ previewUrl # "") =>
        /\ selectedFile # NoFile
        /\ previewUrl = DataUrl(selectedFile)

-----------------------------------------------------------------------------
(* Properties of the browser shell *)

\* a submission whose search is in flight or whose retry timer is set
Outstanding(c) == chains[c].st \in {"inflight", "timer"}

\* C2: a submission whose attempts all fail with a retryable error makes at most 3
\* searchByImage calls; after the third failure the error is surfaced and no further
\* attempt is scheduled.
C2_AtMostThreeCalls ==
    \A c \in 1..MaxSubmissions :
        /\ chains[c].attempts <= MAX_RETRIES + 1
        /\ chains[c].failures = MAX_RETRIES + 1 => chains[c].st = "failed"

\* C5: from the call that sets it until the submission ends in success or in a
\* surfaced error, isLoading stays true, the retry delay included.
C5_LoadingUntilEnd ==
    \A c \in 1..MaxSubmissions : Outstanding(c) => isLoading

\* C6: while a search is in progress the upload component emits no other submission:
\* at most one submission is outstanding, and the submit button is enabled only when
\* none is.
C6_OneSubmissionOutstanding ==
    /\ Cardinality({c \in 1..MaxSubmissions : Outstanding(c)}) <= 1
    /\ (SubmitEnabled /\ Emits) => \A c \in 1..MaxSubmissions : ~Outstanding(c)

\* the submissions made so far, and the latest of them
Submitted == {c \in 1..MaxSubmissions : chains[c].st # "none"}
Latest == CHOOSE c \in Submitted : \A d \in Submitted : d <= c

\* C19: once every submission has finished, the uploaded image, the results and the
\* error shown are those of the latest submission; what an earlier submission ended
\* with after the latest was made is discarded.
C19_LatestSubmissionWins ==
    (Submitted # {} /\ \A c \in Submitted : ~Outstanding(c)) =>
        /\ uploadedImage = PreviewOf(chains[Latest].imageData)
        /\ chains[Latest].st = "succeeded" =>
              /\ searchResults = chains[Latest].results
              /\ ~error.set
        /\ chains[Latest].st = "failed" => error = chains[Latest].surfaced

\* a step of submission c other than the one in which its search succeeds
StepOfFailing(c) == chains'[c] # chains[c] /\ chains'[c].st # "succeeded"

\* the step in which submission c surfaces its error
SurfacesError(c) == chains[c].st = "inflight" /\ chains'[c].st = "failed"

\* C20: a submission that ends in a surfaced error clears nothing: none of its steps
\* changes the search results or the upload component, and the step that sets the
\* error leaves the uploaded image set and as it was, and puts the loading flag back
\* to false and the retry counter back to 0.
C20_ErrorPreservesState ==
    [][\A c \in 1..MaxSubmissions :
          /\ StepOfFailing(c) => searchResults' = searchResults /\ UNCHANGED uiVars
          /\ SurfacesError(c) =>
                /\ error'.set
                /\ uploadedImage' = uploadedImage /\ uploadedImage # ""
                /\ isLoading' = FALSE
                /\ retryCount' = 0]_vars

\* a submission made over the results of an earlier search has been retried and has
\* then surfaced its error, and the earlier results are still held
C20_Witness ==
    \E c \in 1..MaxSubmissions :
        /\ chains[c].st = "failed" /\ chains[c].failures >= 1
        /\ error = chains[c].surfaced /\ error.set
        /\ searchResults # <<>>
        /\ uploadedImage # "" /\ previewUrl # ""
        /\ ~isLoading /\ retryCount = 0

\* C24: the delay scheduled before the k-th automatic retry of one submission is
\* 1000 ms x k: 1000 before the first retry, 2000 before the second.
C24_LinearBackoff ==
    \A c \in 1..MaxSubmissions :
        chains[c].st = "timer" => chains[c].delay = 1000 * chains[c].failures

-----------------------------------------------------------------------------
(* Properties of the results component *)

\* C7: once the effects have run, the displayed list is exactly the products with
\* similarityScore >= threshold in their original order, and the count given to the
\* filter control is the length of that list.
C7_FilteredExactly ==
    pendingEffects = {} =>
        /\ filteredProducts =
              SelectSeq(srProducts, LAMBDA product : product.similarityScore >= threshold)
        /\ resultCount =
              Cardinality({i \in 1..Len(srProducts) : srProducts[i].similarityScore >= threshold})

\* scores 95, 80, 95 under threshold 88: the first and the third are shown, in that
\* order, and the count is 2
C7_Witness ==
    /\ pendingEffects = {}
    /\ threshold = 88
    /\ Len(srProducts) = 3
    /\ srProducts[1].similarityScore = 95
    /\ srProducts[2].similarityScore = 80
    /\ srProducts[3].similarityScore = 95
    /\ filteredProducts = <<srProducts[1], srProducts[3]>>
    /\ resultCount = 2

-----------------------------------------------------------------------------
(* Properties of the embedding-generation script *)

\* the ids of the products whose pass through the loop stored an embedding
SucceededIds == {genLog[i].id : i \in {j \in 1..Len(genLog) : genLog[j].outcome = "ok"}}

\* the loop has ended: every product was attempted once, in catalog order
LoopComplete ==
    /\ Len(genLog) = Len(genProducts)
    /\ \A i \in 1..Len(genLog) : genLog[i].id = genProducts[i]
    /\ successCount + failCount = Len(genProducts)

\* C22: a failure while processing one product never aborts the run: every product is
\* attempted once in catalog order, successCount + failCount is the number of
\* products when the loop ends, the embeddings file is written once, after the loop,
\* with exactly the ids of the products that succeeded, and the exit code is 0;
\* exit code 1 comes only from model loading, catalog reading or file writing.
C22_ProductFailuresDoNotAbort ==
    /\ genPc = "loop" => /\ genWritten = <<>>
                         /\ exitCode = -1
                         /\ successCount + failCount = Len(genLog)
                         /\ Len(genLog) = genIndex - 1
    /\ (genPc = "exited" /\ genFatal \notin {"loadModel", "readCatalog"}) => LoopComplete
    /\ exitCode = 0 =>
          /\ genPc = "exited" /\ genFatal = ""
          /\ Len(genWritten) = 1
          /\ DOMAIN genWritten[1] = SucceededIds
    /\ exitCode = 1 =>
          /\ genPc = "exited"
          /\ genFatal \in {"loadModel", "readCatalog", "writeFile"}
          /\ genWritten = <<>>
    /\ genPc = "exited" => exitCode \in {0, 1}

\* a run over three products, the second of which failed, that wrote the two other
\* embeddings and exited 0
C22_Witness ==
    /\ exitCode = 0
    /\ Len(genProducts) = 3
    /\ genLog[2].outcome # "ok"
    /\ successCount = 2 /\ failCount = 1
    /\ DOMAIN genWritten[1] = {genProducts[1], genProducts[3]}

-----------------------------------------------------------------------------
(* Properties of computeSimilarity *)

\* computeSimilarity has been called
SimCalled == simResult # Threw("")

SimThrew(message) == simResult.threw /\ simResult.message = message

IsEmptyArray(arg) == arg.isArray /\ arg.elems = <<>>
AllZero(arg) == \A i \in 1..Len(arg.elems) : arg.elems[i] = 0

\* what C23 says of arguments that are no arrays, of arrays of different lengths and
\* of all-zero vectors
SimOtherCases(a, b) ==
    /\ (~a.isArray \/ ~b.isArray) => SimThrew("Embeddings must be arrays")
    /\ (a.isArray /\ b.isArray /\ Len(a.elems) # Len(b.elems))
          => SimThrew("Embeddings must have the same length")
    /\ (a.isArray /\ b.isArray /\ Len(a.elems) = Len(b.elems) /\ Len(a.elems) > 0
          /\ (AllZero(a) \/ AllZero(b)))
          => simResult = Returned([num |-> 0, den2 |-> 1])

\* C23: computeSimilarity raises the length-mismatch error for arrays of different
\* lengths, the empty-input error whenever an empty vector is passed, the
\* must-be-arrays error whenever an argument is not an array, and returns exactly 0
\* for non-empty vectors of equal length one of which is all-zero.
C23_ErrorsByInput ==
    SimCalled =>
        /\ SimOtherCases(simArgs[1], simArgs[2])
        /\ (IsEmptyArray(simArgs[1]) \/ IsEmptyArray(simArgs[2]))
              => SimThrew("Embeddings cannot be empty")

\* C23 as the code has it: the empty-input error is raised when both arguments are
\* empty arrays; an empty array with a non-empty one raises the length-mismatch
\* error, and with a value that is no array the must-be-arrays error.
C23_ErrorsByInputInOrder ==
    SimCalled =>
        /\ SimOtherCases(simArgs[1], simArgs[2])
        /\ (IsEmptyArray(simArgs[1]) /\ IsEmptyArray(simArgs[2]))
              <=> SimThrew("Embeddings cannot be empty")

\* the call computeSimilarity([], [1]) has raised the length-mismatch error
C23_Witness ==
    /\ simArgs = <<ArrayArg(<<>>), ArrayArg(<<1>>)>>
    /\ SimThrew("Embeddings must have the same length")







=============================================================================
